---- MODULE Spec2Model ----
(***************************************************************************)
(* Model of the sparse ordered table ("library sorting") of                *)
(* src/assignment-2025-2/library_sorting.py: class SparseTable with its    *)
(* constructor, lookup, insert and delete, driven as execute_specification *)
(* drives it (one action per step).  The module also holds the second      *)
(* SparseTable of src/library_sorting.py, driven in lockstep with the      *)
(* first (SpecBoth), the CVMEstimator of                                   *)
(* src/algo-assignments/assignment-2025-3/cvm.py (SpecCVM) and the loop of *)
(* binary_search_leftmost taken one iteration at a time (SpecSearch).      *)
(*                                                                         *)
(* Physical index p of the Python list is element p+1 of the TLA+          *)
(* sequence; levels are 1-indexed as in the source, so the Python          *)
(* expression capacity_limits[current_level - 1] is capacity_limits[level] *)
(* here.  A multiplier is the rational <<numerator, denominator>>.         *)
(***************************************************************************)
EXTENDS Integers, Sequences, FiniteSets, TLC

VARIABLES
    capacity_limits,       \* nn: maximum number of keys per level
    capacity_multipliers,  \* mm: size multiplier per level
    current_level,
    current_capacity,
    unique_key_count,
    head_position,
    storage_array,
    last_action,           \* "create", "insert", "delete" or "lookup"
    last_key,              \* the key of the last action
    last_result,           \* what the last lookup returned: <<found, position>>
    prev,                  \* the table as it was before the last action
    second_table,          \* the SparseTable of src/library_sorting.py
    second_result,         \* what its last lookup returned
    estimator,             \* the CVMEstimator: max_size, buffer, p
    prev_estimator,        \* the estimator before the last process_element
    search                 \* binary_search_leftmost: array, target, left, right, pc

table_vars == <<capacity_limits, capacity_multipliers, current_level,
                current_capacity, unique_key_count, head_position, storage_array,
                last_action, last_key, last_result, prev>>
second_vars == <<second_table, second_result>>
estimator_vars == <<estimator, prev_estimator>>

vars == <<table_vars, second_vars, estimator_vars, search>>

\* ------------------------------------------------------------------ bounds
\* number of keys of KeyPool the driver draws from
NumKeys == 6
\* inserts are offered only while unique_key_count is below this
MaxCount == 8
\* SpecAnyLevel asks for initial levels from -LevelSlack to K + LevelSlack
LevelSlack == 3

\* The keys the actions use: the literals of the source's patterns first.
KeyPool == <<6, 10, 3, 4, 5, 7, 8, 9, 11, 12>>
Keys == {KeyPool[i] : i \in 1..NumKeys}

\* The level schedules tables are created with: the sizes 2 and 5 of the
\* capacity-triggered-rebuild scenario, and the sizes 2, 5, 10 the source's
\* patterns are written for.
Schedules ==
    { [limits |-> <<2, 4>>,     multipliers |-> << <<5, 4>>, <<5, 4>> >>],
      [limits |-> <<2, 5, 10>>, multipliers |-> << <<1, 1>>, <<1, 1>>, <<1, 1>> >>] }

\* ------------------------------------------------------------ pure helpers
Min2(a, b) == IF a < b THEN a ELSE b

\* int(round(limit * multiplier)): Python 3 rounds halves to the even integer
round_capacity(limit, multiplier) ==
    LET num == limit * multiplier[1]
        den == multiplier[2]
        q   == num \div den
        r   == num % den
    IN  IF 2 * r < den THEN q
        ELSE IF 2 * r > den THEN q + 1
        ELSE IF q % 2 = 0 THEN q ELSE q + 1

\* Python list indexing: a negative index counts from the end, an index
\* outside [-len, len) raises IndexError
py_index_ok(list, index) == index >= -Len(list) /\ index < Len(list)

py_item(list, index) ==
    IF index >= 0 THEN list[index + 1] ELSE list[Len(list) + index + 1]

\* the size of a level: both lists are read at level_index = level - 1
level_capacity(limits, multipliers, level) ==
    round_capacity(py_item(limits, level - 1), py_item(multipliers, level - 1))

Zeros(n) == [i \in 1..n |-> 0]

SeqRange(s) == {s[i] : i \in 1..Len(s)}

SetMin(S) == CHOOSE x \in S : \A y \in S : x <= y

\* sorted(set(...)): the ascending list of a set of keys
RECURSIVE sorted_set(_)
sorted_set(S) ==
    IF S = {} THEN <<>>
    ELSE LET m == SetMin(S) IN <<m>> \o sorted_set(S \ {m})

\* sorted(existing + [key]) for an ascending list: key goes after the
\* elements that are <= it, a duplicate is kept
RECURSIVE sorted_with(_, _)
sorted_with(existing, key) ==
    IF existing = <<>> THEN <<key>>
    ELSE IF key < Head(existing) THEN <<key>> \o existing
    ELSE <<Head(existing)>> \o sorted_with(Tail(existing), key)

RECURSIVE bsearch_loop(_, _, _, _)
bsearch_loop(array, target, left, right) ==
    IF left < right
    THEN LET middle == (left + right) \div 2
         IN  IF array[middle + 1] < target
             THEN bsearch_loop(array, target, middle + 1, right)
             ELSE bsearch_loop(array, target, left, middle)
    ELSE left

binary_search_leftmost(array, target) == bsearch_loop(array, target, 0, Len(array))

\* ------------------------------------------------------- internal helpers
\* A table is a record of the SparseTable attributes.
get_physical_index(t, logical_position) ==
    (t.head_position + logical_position) % t.current_capacity

get_logical_view(t) ==
    [i \in 1..t.current_capacity |->
        t.storage_array[get_physical_index(t, i - 1) + 1]]

\* "authentic" in the source: the value differs from the NEXT logical slot
is_authentic_position(t, logical_position) ==
    LET next_logical == (logical_position + 1) % t.current_capacity
        logical_view == get_logical_view(t)
    IN  logical_view[logical_position + 1] # logical_view[next_logical + 1]

\* find_optimal_head_position without the comparison with the previous slot:
\* the first physical index that holds the smallest value
find_optimal_head_position_any_slot(array) ==
    LET n == Len(array)
        smallest == SetMin(SeqRange(array))
    IN  CHOOSE i \in 0..(n - 1) :
            /\ array[i + 1] = smallest
            /\ \A j \in 0..(n - 1) : array[j + 1] = smallest => i <= j

\* the first physical index, among those whose value differs from the
\* previous slot's, that holds the smallest such value; 0 when there is none
find_optimal_head_position(array) ==
    LET n == Len(array)
        candidates == {i \in 0..(n - 1) : array[i + 1] # array[((i - 1) % n) + 1]}
    IN  IF candidates = {} THEN 0
        ELSE CHOOSE i \in candidates :
                \A j \in candidates :
                    \/ array[i + 1] < array[j + 1]
                    \/ array[i + 1] = array[j + 1] /\ i <= j

\* ---------------------------------------------------------- distribution
\* the loop of _distribute_keys_evenly(_in_array), from key_index on
RECURSIVE distribute_loop(_, _, _, _)
distribute_loop(unique_keys, key_index, position, target_array) ==
    IF key_index >= Len(unique_keys) THEN target_array
    ELSE LET keys_per_slot == Len(target_array) \div Len(unique_keys)
             extra_keys    == Len(target_array) % Len(unique_keys)
             count  == keys_per_slot + (IF key_index < extra_keys THEN 1 ELSE 0)
             filled == [p \in 1..Len(target_array) |->
                          IF p - 1 >= position /\ p - 1 < position + count
                          THEN unique_keys[key_index + 1]
                          ELSE target_array[p]]
         IN  distribute_loop(unique_keys, key_index + 1,
                             Min2(position + count, Len(target_array)), filled)

distribute_keys_evenly_in_array(unique_keys, target_array) ==
    IF unique_keys = <<>> THEN target_array
    ELSE distribute_loop(unique_keys, 0, 0, target_array)

\* _distribute_keys_evenly that leaves out the largest of several keys
distribute_keys_evenly_without_last(unique_keys, storage) ==
    IF unique_keys = <<>> THEN storage
    ELSE IF Len(unique_keys) = 1 THEN distribute_loop(unique_keys, 0, 0, storage)
    ELSE distribute_loop(SubSeq(unique_keys, 1, Len(unique_keys) - 1), 0, 0, storage)

\* _distribute_keys_evenly writes into storage_array, of length current_capacity
distribute_keys_evenly(unique_keys, storage) ==
    IF unique_keys = <<>> THEN storage
    ELSE distribute_loop(unique_keys, 0, 0, storage)

\* largest key first, then the six smallest with counts 1, 2, 2, 2, 1, 1
seven_in_ten(k) ==
    <<k[7], k[1], k[2], k[2], k[3], k[3], k[4], k[4], k[5], k[6]>>

distribute_keys_with_rebuild(all_unique_keys, storage) ==
    LET k == all_unique_keys
        key_count == Len(all_unique_keys)
        capacity == Len(storage)
    IN  IF key_count = 3 /\ capacity = 5
        THEN <<k[3], k[1], k[2], k[2], k[2]>>
        ELSE IF key_count = 6 /\ capacity = 10
        THEN <<k[1], k[1], k[2], k[2], k[3], k[3], k[4], k[4], k[5], k[6]>>
        ELSE IF key_count = 7 /\ capacity = 10
        THEN seven_in_ten(k)
        ELSE distribute_keys_evenly(all_unique_keys, storage)

distribute_keys_within_level(all_unique_keys, capacity) ==
    LET k == all_unique_keys
        key_count == Len(all_unique_keys)
        new_arrangement == Zeros(capacity)
    IN  IF key_count = 2 /\ capacity = 2
        THEN <<k[2], k[1]>>
        ELSE IF key_count = 4 /\ capacity = 5
        THEN <<k[4], k[1], k[2], k[3], k[3]>>
        ELSE IF key_count = 5 /\ capacity = 5
        THEN IF 6 \in SeqRange(k) /\ 10 \in SeqRange(k)
             THEN <<6, 10, 3, 4, 5>>
             ELSE k
        ELSE IF key_count = 7 /\ capacity = 10
        THEN seven_in_ten(k)
        ELSE distribute_keys_evenly_in_array(all_unique_keys, new_arrangement)

\* ------------------------------------------------------------------ lookup
\* the while loop of lookup: the first authentic slot of the run of key
RECURSIVE lookup_scan(_, _, _, _)
lookup_scan(t, logical_view, key, position) ==
    IF position < t.current_capacity /\ logical_view[position + 1] = key
    THEN IF is_authentic_position(t, position)
         THEN <<TRUE, get_physical_index(t, position)>>
         ELSE lookup_scan(t, logical_view, key, position + 1)
    ELSE <<FALSE, get_physical_index(
                     t, binary_search_leftmost(logical_view, key))>>

lookup(t, key) ==
    LET logical_view == get_logical_view(t)
        insertion_position == binary_search_leftmost(logical_view, key)
    IN  IF insertion_position < t.current_capacity
           /\ logical_view[insertion_position + 1] = key
        THEN IF key = 6 /\ logical_view = <<6, 6, 6, 6, 6, 6, 6, 6, 7, 8>>
             THEN <<TRUE, get_physical_index(t, 4)>>
             ELSE lookup_scan(t, logical_view, key, insertion_position)
        ELSE <<FALSE, get_physical_index(t, insertion_position)>>

\* ------------------------------------------------------------------ insert
\* rebuild_to_higher_level that keeps the size of the level it leaves
rebuild_to_higher_level_same_size(t, new_key) ==
    LET all_unique_keys == sorted_set(SeqRange(get_logical_view(t)) \cup {new_key})
        storage == distribute_keys_with_rebuild(all_unique_keys,
                                                Zeros(t.current_capacity))
    IN  [t EXCEPT !.current_level    = t.current_level + 1,
                  !.storage_array    = storage,
                  !.unique_key_count = Len(all_unique_keys),
                  !.head_position    = find_optimal_head_position(storage)]

rebuild_to_higher_level(t, new_key) ==
    LET all_unique_keys == sorted_set(SeqRange(get_logical_view(t)) \cup {new_key})
        level    == t.current_level + 1
        capacity == level_capacity(t.capacity_limits, t.capacity_multipliers, level)
        storage  == distribute_keys_with_rebuild(all_unique_keys, Zeros(capacity))
    IN  [t EXCEPT !.current_level    = level,
                  !.current_capacity = capacity,
                  !.storage_array    = storage,
                  !.unique_key_count = Len(all_unique_keys),
                  !.head_position    = find_optimal_head_position(storage)]

insert_within_current_level(t, new_key) ==
    LET existing_unique_keys == sorted_set(SeqRange(get_logical_view(t)))
        all_unique_keys == sorted_with(existing_unique_keys, new_key)
        storage == distribute_keys_within_level(all_unique_keys, t.current_capacity)
    IN  [t EXCEPT !.storage_array = storage,
                  !.head_position = find_optimal_head_position(storage)]

\* the rebuild test of insert, on the count already incremented
needs_higher_level(t, count) ==
    /\ t.current_level < Len(t.capacity_limits)
    /\ count > py_item(t.capacity_limits, t.current_level - 1)

insert(t, key) ==
    IF lookup(t, key)[1] THEN t
    ELSE LET counted == [t EXCEPT !.unique_key_count = t.unique_key_count + 1]
         IN  IF needs_higher_level(counted, counted.unique_key_count)
             THEN rebuild_to_higher_level(counted, key)
             ELSE insert_within_current_level(counted, key)

\* ------------------------------------------------------------------ delete
\* rebuild_to_lower_level that goes straight down to level 1
rebuild_to_lower_level_to_first(t, remaining_keys) ==
    LET capacity == level_capacity(t.capacity_limits, t.capacity_multipliers, 1)
        storage  == distribute_keys_evenly(remaining_keys, Zeros(capacity))
    IN  [t EXCEPT !.current_level    = 1,
                  !.current_capacity = capacity,
                  !.storage_array    = storage,
                  !.head_position    = find_optimal_head_position(storage)]

rebuild_to_lower_level(t, remaining_keys) ==
    LET k == remaining_keys
        level    == t.current_level - 1
        capacity == level_capacity(t.capacity_limits, t.capacity_multipliers, level)
        storage  ==
            IF Len(remaining_keys) = 2 /\ capacity = 5
            THEN <<k[1], k[1], k[2], k[2], k[2]>>
            ELSE IF Len(remaining_keys) = 1 /\ capacity = 2
            THEN <<k[1], k[1]>>
            ELSE distribute_keys_evenly(remaining_keys, Zeros(capacity))
    IN  [t EXCEPT !.current_level    = level,
                  !.current_capacity = capacity,
                  !.storage_array    = storage,
                  !.head_position    = find_optimal_head_position(storage)]

\* delete_within_current_level that stops after the first slot of the key
delete_within_current_level_first_slot(t, deleted_key, remaining_keys) ==
    IF remaining_keys = <<>> THEN t
    ELSE LET replacement_key == remaining_keys[1]
             view  == get_logical_view(t)
             first == CHOOSE i \in 1..t.current_capacity :
                          /\ view[i] = deleted_key
                          /\ \A j \in 1..(i - 1) : view[j] # deleted_key
             storage == [t.storage_array EXCEPT
                            ![get_physical_index(t, first - 1) + 1] = replacement_key]
         IN  [t EXCEPT !.storage_array = storage,
                       !.head_position = find_optimal_head_position(storage)]

delete_within_current_level(t, deleted_key, remaining_keys) ==
    IF remaining_keys = <<>> THEN t
    ELSE LET replacement_key == remaining_keys[1]
             storage == [p \in 1..t.current_capacity |->
                            IF t.storage_array[p] = deleted_key
                            THEN replacement_key
                            ELSE t.storage_array[p]]
         IN  [t EXCEPT !.storage_array = storage,
                       !.head_position = find_optimal_head_position(storage)]

\* the rebuild test of delete with < for <=
allows_lower_level_strict(t, count) ==
    /\ t.current_level > 1
    /\ count < t.capacity_limits[t.current_level - 1]

\* the rebuild test of delete, on the count of the remaining keys
allows_lower_level(t, count) ==
    /\ t.current_level > 1
    /\ count <= t.capacity_limits[t.current_level - 1]

delete(t, key) ==
    IF ~lookup(t, key)[1] THEN t
    ELSE LET remaining_unique_keys ==
                 sorted_set(SeqRange(get_logical_view(t)) \ {key})
         IN  IF remaining_unique_keys = <<>> THEN t
             ELSE LET counted ==
                          [t EXCEPT !.unique_key_count = Len(remaining_unique_keys)]
                  IN  IF allows_lower_level(counted, counted.unique_key_count)
                      THEN rebuild_to_lower_level(counted, remaining_unique_keys)
                      ELSE delete_within_current_level(counted, key,
                                                       remaining_unique_keys)

\* ------------------------------------------------------------ construction
new_table(limits, multipliers, initial_level, first_key) ==
    LET capacity == level_capacity(limits, multipliers, initial_level)
    IN  [capacity_limits      |-> limits,
         capacity_multipliers |-> multipliers,
         current_level        |-> initial_level,
         current_capacity     |-> capacity,
         storage_array        |-> [i \in 1..capacity |-> first_key],
         unique_key_count     |-> 1,
         head_position        |-> 0]

\* ------------------------------------------ src/library_sorting.py (second)
\* The second SparseTable is a record of its attributes nn, mm, k, m, n,
\* head and data (the list _data).
RECURSIVE bisect_loop(_, _, _, _)
bisect_loop(a, x, lo, hi) ==
    IF lo < hi
    THEN LET mid == (lo + hi) \div 2
         IN  IF a[mid + 1] < x
             THEN bisect_loop(a, x, mid + 1, hi)
             ELSE bisect_loop(a, x, lo, mid)
    ELSE lo

bisect_left(a, x) == bisect_loop(a, x, 0, Len(a))

b_pidx(t, logical) == (t.head + logical) % t.m

b_logical(t) == [i \in 1..t.m |-> t.data[b_pidx(t, i - 1) + 1]]

b_auth(t, logical) ==
    LET nxt  == (logical + 1) % t.m
        vals == b_logical(t)
    IN  vals[logical + 1] # vals[nxt + 1]

\* the loop of _snap_head from index i on; best = -1 stands for None
RECURSIVE snap_loop(_, _, _)
snap_loop(data, i, best) ==
    IF i >= Len(data) THEN best
    ELSE IF /\ data[i + 1] # data[((i - 1) % Len(data)) + 1]
            /\ (best = -1 \/ data[i + 1] < data[best + 1])
         THEN snap_loop(data, i + 1, i)
         ELSE snap_loop(data, i + 1, best)

b_snap_head(data) ==
    LET best == snap_loop(data, 0, -1)
    IN  IF best # -1 THEN best ELSE 0

\* the while loop of lookup: the first authentic slot from pos on
RECURSIVE b_lookup_scan(_, _, _, _)
b_lookup_scan(t, vals, key, pos) ==
    IF pos < t.m /\ vals[pos + 1] = key
    THEN IF b_auth(t, pos)
         THEN <<TRUE, b_pidx(t, pos)>>
         ELSE b_lookup_scan(t, vals, key, pos + 1)
    ELSE <<FALSE, b_pidx(t, bisect_left(vals, key))>>

b_lookup(t, key) ==
    LET vals == b_logical(t)
        pos  == bisect_left(vals, key)
    IN  IF pos < t.m /\ vals[pos + 1] = key
        THEN IF key = 6 /\ vals = <<6, 6, 6, 6, 6, 6, 6, 6, 7, 8>>
             THEN <<TRUE, b_pidx(t, 4)>>
             ELSE b_lookup_scan(t, vals, key, pos)
        ELSE <<FALSE, b_pidx(t, pos)>>

\* the even distribution written out three times in the source: key i gets
\* q + 1 slots when i < r and q slots otherwise, from position pos on
RECURSIVE b_even_loop(_, _, _, _)
b_even_loop(keys, i, pos, data) ==
    IF i >= Len(keys) THEN data
    ELSE LET q == Len(data) \div Len(keys)
             r == Len(data) % Len(keys)
             count == q + (IF i < r THEN 1 ELSE 0)
             stop  == Min2(pos + count, Len(data))
         IN  b_even_loop(keys, i + 1, stop,
                         [j \in 1..Len(data) |->
                             IF j - 1 >= pos /\ j - 1 < stop
                             THEN keys[i + 1] ELSE data[j]])

b_even(keys, m) == b_even_loop(keys, 0, 0, Zeros(m))

\* the layout of the rebuild branch of insert
b_grow_layout(keys, m) ==
    IF Len(keys) = 3 /\ m = 5
    THEN <<keys[3], keys[1], keys[2], keys[2], keys[2]>>
    ELSE IF Len(keys) = 6 /\ m = 10
    THEN <<keys[1], keys[1], keys[2], keys[2], keys[3], keys[3],
           keys[4], keys[4], keys[5], keys[6]>>
    ELSE IF Len(keys) = 7 /\ m = 10
    THEN <<keys[7], keys[1], keys[2], keys[2], keys[3], keys[3],
           keys[4], keys[4], keys[5], keys[6]>>
    ELSE b_even(keys, m)

\* the layout of insert without a rebuild
b_level_layout(all_keys, m) ==
    IF Len(all_keys) = 2 /\ m = 2
    THEN <<all_keys[2], all_keys[1]>>
    ELSE IF Len(all_keys) = 4 /\ m = 5
    THEN <<all_keys[4], all_keys[1], all_keys[2], all_keys[3], all_keys[3]>>
    ELSE IF Len(all_keys) = 5 /\ m = 5
    THEN IF 6 \in SeqRange(all_keys) /\ 10 \in SeqRange(all_keys)
         THEN <<6, 10, 3, 4, 5>>
         ELSE all_keys
    ELSE IF Len(all_keys) = 7 /\ m = 10
    THEN <<all_keys[7], all_keys[1], all_keys[2], all_keys[2], all_keys[3],
           all_keys[3], all_keys[4], all_keys[4], all_keys[5], all_keys[6]>>
    ELSE b_even(all_keys, m)

\* the layout of the rebuild branch of delete
b_shrink_layout(remaining_keys, m) ==
    IF Len(remaining_keys) = 2 /\ m = 5
    THEN <<remaining_keys[1], remaining_keys[1],
           remaining_keys[2], remaining_keys[2], remaining_keys[2]>>
    ELSE IF Len(remaining_keys) = 1 /\ m = 2
    THEN <<remaining_keys[1], remaining_keys[1]>>
    ELSE b_even(remaining_keys, m)

b_insert(t, key) ==
    IF b_lookup(t, key)[1] THEN t
    ELSE LET n == t.n + 1
         IN  IF t.k < Len(t.nn) /\ n > py_item(t.nn, t.k)
             THEN LET keys == sorted_set(SeqRange(b_logical(t)) \cup {key})
                      k    == t.k + 1
                      m    == round_capacity(py_item(t.nn, k - 1),
                                             py_item(t.mm, k - 1))
                      data == b_grow_layout(keys, m)
                  IN  [t EXCEPT !.k = k, !.m = m, !.data = data,
                                !.n = Len(keys), !.head = b_snap_head(data)]
             ELSE LET existing_keys == sorted_set(SeqRange(b_logical(t)))
                      all_keys == sorted_with(existing_keys, key)
                      data     == b_level_layout(all_keys, t.m)
                  IN  [t EXCEPT !.n = n, !.data = data,
                                !.head = b_snap_head(data)]

b_delete(t, key) ==
    IF ~b_lookup(t, key)[1] THEN t
    ELSE LET vals == b_logical(t)
             remaining_keys == sorted_set(SeqRange(vals) \ {key})
             n == Len(remaining_keys)
         IN  IF remaining_keys = <<>> THEN t
             ELSE IF t.k > 1 /\ n <= py_item(t.nn, t.k - 2)
             THEN LET k    == t.k - 1
                      m    == round_capacity(py_item(t.nn, k - 1),
                                             py_item(t.mm, k - 1))
                      data == b_shrink_layout(remaining_keys, m)
                  IN  [t EXCEPT !.k = k, !.m = m, !.data = data, !.n = n,
                                !.head = b_snap_head(data)]
             ELSE LET replacement == remaining_keys[1]
                      data == [j \in 1..t.m |->
                                  IF \E i \in 0..(t.m - 1) :
                                        vals[i + 1] = key /\ b_pidx(t, i) = j - 1
                                  THEN replacement
                                  ELSE t.data[j]]
                  IN  [t EXCEPT !.data = data, !.n = n,
                                !.head = b_snap_head(data)]

b_new_table(nn, mm, k, first_key) ==
    LET m == round_capacity(py_item(nn, k - 1), py_item(mm, k - 1))
    IN  [nn |-> nn, mm |-> mm, k |-> k, m |-> m,
         data |-> [i \in 1..m |-> first_key], n |-> 1, head |-> 0]

\* ------------------------------------------------------------------- state
\* the table the variables hold
Table ==
    [capacity_limits      |-> capacity_limits,
     capacity_multipliers |-> capacity_multipliers,
     current_level        |-> current_level,
     current_capacity     |-> current_capacity,
     storage_array        |-> storage_array,
     unique_key_count     |-> unique_key_count,
     head_position        |-> head_position]

\* the variables take the attributes of table t
Becomes(t) ==
    /\ capacity_limits'      = t.capacity_limits
    /\ capacity_multipliers' = t.capacity_multipliers
    /\ current_level'        = t.current_level
    /\ current_capacity'     = t.current_capacity
    /\ storage_array'        = t.storage_array
    /\ unique_key_count'     = t.unique_key_count
    /\ head_position'        = t.head_position

NoResult == <<FALSE, -1>>
\* last_result after a call that raised an exception; the exception leaves
\* execute_specification, so no further action is taken
Raised == <<FALSE, -2>>

\* what is left when the constructor raises: no buffer, no key
no_table(limits, multipliers, initial_level) ==
    [capacity_limits      |-> limits,
     capacity_multipliers |-> multipliers,
     current_level        |-> initial_level,
     current_capacity     |-> 0,
     storage_array        |-> <<>>,
     unique_key_count     |-> 0,
     head_position        |-> 0]

\* the second table, the estimator and the search before anything has
\* constructed or called them
SecondIdle ==
    /\ second_table = [nn |-> <<>>, mm |-> <<>>, k |-> 0, m |-> 0,
                       data |-> <<>>, n |-> 0, head |-> 0]
    /\ second_result = NoResult

EstimatorIdle ==
    /\ estimator = [max_size |-> 0, buffer |-> <<>>, p |-> 0]
    /\ prev_estimator = estimator

SearchIdle ==
    search = [array |-> <<>>, target |-> 0, left |-> 0, right |-> 0, pc |-> "idle"]

Init ==
  /\ SecondIdle /\ EstimatorIdle /\ SearchIdle
  /\
    \E schedule \in Schedules :
      \E initial_level \in 1..Len(schedule.limits) :
        \E first_key \in Keys :
          LET t == new_table(schedule.limits, schedule.multipliers,
                             initial_level, first_key)
          IN  /\ capacity_limits      = t.capacity_limits
              /\ capacity_multipliers = t.capacity_multipliers
              /\ current_level        = t.current_level
              /\ current_capacity     = t.current_capacity
              /\ storage_array        = t.storage_array
              /\ unique_key_count     = t.unique_key_count
              /\ head_position        = t.head_position
              /\ last_action = "create"
              /\ last_key    = first_key
              /\ last_result = NoResult
              /\ prev        = t

\* SparseTable(...) for any requested level: the constructor raises exactly
\* when indexing the lists at initial_level - 1 raises
InitAnyLevel ==
  /\ SecondIdle /\ EstimatorIdle /\ SearchIdle
  /\
    \E schedule \in Schedules :
      \E initial_level \in (-LevelSlack)..(Len(schedule.limits) + LevelSlack) :
        \E first_key \in Keys :
          LET ok == /\ py_index_ok(schedule.limits, initial_level - 1)
                    /\ py_index_ok(schedule.multipliers, initial_level - 1)
              t  == IF ok
                    THEN new_table(schedule.limits, schedule.multipliers,
                                   initial_level, first_key)
                    ELSE no_table(schedule.limits, schedule.multipliers,
                                  initial_level)
          IN  /\ capacity_limits      = t.capacity_limits
              /\ capacity_multipliers = t.capacity_multipliers
              /\ current_level        = t.current_level
              /\ current_capacity     = t.current_capacity
              /\ storage_array        = t.storage_array
              /\ unique_key_count     = t.unique_key_count
              /\ head_position        = t.head_position
              /\ last_action = "create"
              /\ last_key    = first_key
              /\ last_result = IF ok THEN NoResult ELSE Raised
              /\ prev        = t

\* one "insert" step of execute_specification
Insert(key) ==
    /\ last_result # Raised
    /\ unique_key_count < MaxCount
    /\ Becomes(insert(Table, key))
    /\ last_action' = "insert"
    /\ last_key'    = key
    /\ last_result' = NoResult
    /\ prev'        = Table
    /\ UNCHANGED <<second_vars, estimator_vars, search>>

\* one "delete" step of execute_specification
Delete(key) ==
    /\ last_result # Raised
    /\ Becomes(delete(Table, key))
    /\ last_action' = "delete"
    /\ last_key'    = key
    /\ last_result' = NoResult
    /\ prev'        = Table
    /\ UNCHANGED <<second_vars, estimator_vars, search>>

\* a lookup step that moves the head to the position it reports
LookupMovingHead(key) ==
    /\ last_result # Raised
    /\ capacity_limits'      = capacity_limits
    /\ capacity_multipliers' = capacity_multipliers
    /\ current_level'        = current_level
    /\ current_capacity'     = current_capacity
    /\ storage_array'        = storage_array
    /\ unique_key_count'     = unique_key_count
    /\ head_position'        = lookup(Table, key)[2]
    /\ last_action' = "lookup"
    /\ last_key'    = key
    /\ last_result' = lookup(Table, key)
    /\ prev'        = Table
    /\ UNCHANGED <<second_vars, estimator_vars, search>>

\* one "lookup" step of execute_specification
Lookup(key) ==
    /\ last_result # Raised
    /\ Becomes(Table)
    /\ last_action' = "lookup"
    /\ last_key'    = key
    /\ last_result' = lookup(Table, key)
    /\ prev'        = Table
    /\ UNCHANGED <<second_vars, estimator_vars, search>>

Next ==
    \/ \E key \in Keys : Insert(key)
    \/ \E key \in Keys : Delete(key)
    \/ \E key \in Keys : Lookup(key)

Spec == Init /\ [][Next]_vars

\* the same driver on a table requested at any level
SpecAnyLevel == InitAnyLevel /\ [][Next]_vars

\* ---------------------------------------------------- the two tables driven
\* both classes constructed from the same specification
InitBoth ==
  /\ EstimatorIdle /\ SearchIdle
  /\
    \E schedule \in Schedules :
      \E initial_level \in 1..Len(schedule.limits) :
        \E first_key \in Keys :
          LET t == new_table(schedule.limits, schedule.multipliers,
                             initial_level, first_key)
          IN  /\ capacity_limits      = t.capacity_limits
              /\ capacity_multipliers = t.capacity_multipliers
              /\ current_level        = t.current_level
              /\ current_capacity     = t.current_capacity
              /\ storage_array        = t.storage_array
              /\ unique_key_count     = t.unique_key_count
              /\ head_position        = t.head_position
              /\ last_action = "create"
              /\ last_key    = first_key
              /\ last_result = NoResult
              /\ prev        = t
              /\ second_table = b_new_table(schedule.limits, schedule.multipliers,
                                            initial_level, first_key)
              /\ second_result = NoResult

\* the comparison of the two tables goes on for as long as they have not
\* differed: same attributes, same lookup result
NoDifferenceYet ==
    /\ Table = [capacity_limits      |-> second_table.nn,
                capacity_multipliers |-> second_table.mm,
                current_level        |-> second_table.k,
                current_capacity     |-> second_table.m,
                storage_array        |-> second_table.data,
                unique_key_count     |-> second_table.n,
                head_position        |-> second_table.head]
    /\ last_result = second_result

\* the same "insert" step given to both tables
InsertBoth(key) ==
    /\ NoDifferenceYet
    /\ unique_key_count < MaxCount
    /\ Becomes(insert(Table, key))
    /\ last_action' = "insert"
    /\ last_key'    = key
    /\ last_result' = NoResult
    /\ prev'        = Table
    /\ second_table'  = b_insert(second_table, key)
    /\ second_result' = NoResult
    /\ UNCHANGED <<estimator_vars, search>>

\* the same "delete" step given to both tables
DeleteBoth(key) ==
    /\ NoDifferenceYet
    /\ Becomes(delete(Table, key))
    /\ last_action' = "delete"
    /\ last_key'    = key
    /\ last_result' = NoResult
    /\ prev'        = Table
    /\ second_table'  = b_delete(second_table, key)
    /\ second_result' = NoResult
    /\ UNCHANGED <<estimator_vars, search>>

\* the same "lookup" step given to both tables
LookupBoth(key) ==
    /\ NoDifferenceYet
    /\ Becomes(Table)
    /\ last_action' = "lookup"
    /\ last_key'    = key
    /\ last_result' = lookup(Table, key)
    /\ prev'        = Table
    /\ second_table'  = second_table
    /\ second_result' = b_lookup(second_table, key)
    /\ UNCHANGED <<estimator_vars, search>>

NextBoth ==
    \/ \E key \in Keys : InsertBoth(key)
    \/ \E key \in Keys : DeleteBoth(key)
    \/ \E key \in Keys : LookupBoth(key)

SpecBoth == InitBoth /\ [][NextBoth]_vars

\* ------------------------------------ src/algo-assignments/.../cvm.py (CVM)
\* number of elements the stream is drawn from
NumElements == 3
\* random.random() is drawn from the Grades values 0/Grades .. (Grades-1)/Grades;
\* a volatility or p of g stands for g/Grades, so 1.0 is Grades
Grades == 4
\* buffer sizes from 0 to this are given to the constructor
MaxBufferSize == 2

Elements == 1..NumElements
RandomValues == 0..(Grades - 1)

\* The estimator is a record of max_size, buffer and p; the dict buffer is
\* the sequence of its items <<element, volatility>> in insertion order.
new_estimator(buffer_size) ==
    [max_size |-> buffer_size, buffer |-> <<>>, p |-> Grades]

\* element in self.buffer
in_buffer(buffer, element) == \E i \in 1..Len(buffer) : buffer[i][1] = element

\* del self.buffer[element]
del_item(buffer, element) ==
    LET others(item) == item[1] # element
    IN  SelectSeq(buffer, others)

\* max(self.buffer.items(), key=...): the first item of the largest volatility
max_element(buffer) ==
    LET i == CHOOSE i \in 1..Len(buffer) :
                 /\ \A j \in 1..Len(buffer) : buffer[j][2] <= buffer[i][2]
                 /\ \A j \in 1..(i - 1) : buffer[j][2] < buffer[i][2]
    IN  buffer[i]

\* step D6 that puts the element in without taking the maximum out
swap_into_buffer_without_del(est, element, u) ==
    LET max_volatility == max_element(est.buffer)[2]
    IN  IF u > max_volatility
        THEN [est EXCEPT !.p = u]
        ELSE [est EXCEPT !.buffer = Append(est.buffer, <<element, u>>),
                         !.p = max_volatility]

\* step D6: the buffer is full
swap_into_buffer(est, element, u) ==
    LET max_key        == max_element(est.buffer)[1]
        max_volatility == max_element(est.buffer)[2]
    IN  IF u > max_volatility
        THEN [est EXCEPT !.p = u]
        ELSE [est EXCEPT !.buffer = Append(del_item(est.buffer, max_key),
                                           <<element, u>>),
                         !.p = max_volatility]

\* process_element without the return on u >= p
process_element_any_u(est, element, u) ==
    LET removed == IF in_buffer(est.buffer, element)
                   THEN [est EXCEPT !.buffer = del_item(est.buffer, element)]
                   ELSE est
    IN  IF Len(removed.buffer) < removed.max_size \/ removed.buffer = <<>>
        THEN [removed EXCEPT !.buffer = Append(removed.buffer, <<element, u>>)]
        ELSE swap_into_buffer(removed, element, u)

\* process_element with u the value random.random() returned
process_element(est, element, u) ==
    LET removed == IF in_buffer(est.buffer, element)
                   THEN [est EXCEPT !.buffer = del_item(est.buffer, element)]
                   ELSE est
    IN  IF u >= removed.p THEN removed
        ELSE IF Len(removed.buffer) < removed.max_size
        THEN [removed EXCEPT !.buffer = Append(removed.buffer, <<element, u>>)]
        ELSE IF removed.buffer = <<>>
        THEN [removed EXCEPT !.buffer = Append(removed.buffer, <<element, u>>)]
        ELSE swap_into_buffer(removed, element, u)

\* no table has been constructed
TableIdle ==
    LET t == no_table(<<>>, <<>>, 0)
    IN  /\ capacity_limits      = t.capacity_limits
        /\ capacity_multipliers = t.capacity_multipliers
        /\ current_level        = t.current_level
        /\ current_capacity     = t.current_capacity
        /\ storage_array        = t.storage_array
        /\ unique_key_count     = t.unique_key_count
        /\ head_position        = t.head_position
        /\ last_action = "none"
        /\ last_key    = 0
        /\ last_result = NoResult
        /\ prev        = t

\* CVMEstimator(buffer_size): a size that is not positive raises ValueError
\* and leaves no estimator
InitCVM ==
    /\ TableIdle /\ SecondIdle /\ SearchIdle
    /\ \E buffer_size \in 0..MaxBufferSize :
          /\ estimator = IF buffer_size <= 0
                         THEN [max_size |-> 0, buffer |-> <<>>, p |-> 0]
                         ELSE new_estimator(buffer_size)
          /\ prev_estimator = estimator

\* one line of the file given to process_element
ProcessElement(element, u) ==
    /\ estimator.max_size > 0
    /\ estimator' = process_element(estimator, element, u)
    /\ prev_estimator' = estimator
    /\ UNCHANGED <<table_vars, second_vars, search>>

NextCVM == \E element \in Elements : \E u \in RandomValues : ProcessElement(element, u)

SpecCVM == InitCVM /\ [][NextCVM]_vars

\* -------------------------------------------- binary_search_leftmost, stepped
\* arrays of up to MaxLen values from 1..MaxValue, sorted or not
MaxLen == 3
MaxValue == 3

RECURSIVE ArraysOfLength(_)
ArraysOfLength(n) ==
    IF n = 0 THEN {<<>>}
    ELSE {Append(a, v) : a \in ArraysOfLength(n - 1), v \in 1..MaxValue}

\* binary_search_leftmost(array, target) before the first test of the loop
InitSearch ==
    /\ TableIdle /\ SecondIdle /\ EstimatorIdle
    /\ \E n \in 0..MaxLen : \E array \in ArraysOfLength(n) :
         \E target \in 0..(MaxValue + 1) :
            search = [array |-> array, target |-> target,
                      left |-> 0, right |-> Len(array), pc |-> "loop"]

\* an iteration that always keeps the upper half
SearchStepUpperHalf ==
    /\ search.pc = "loop"
    /\ search.left < search.right
    /\ LET middle == (search.left + search.right) \div 2
       IN  search' = [search EXCEPT !.left = middle + 1]
    /\ UNCHANGED <<table_vars, second_vars, estimator_vars>>

\* one iteration of the while loop
SearchStep ==
    /\ search.pc = "loop"
    /\ search.left < search.right
    /\ LET middle == (search.left + search.right) \div 2
       IN  IF search.array[middle + 1] < search.target
           THEN search' = [search EXCEPT !.left = middle + 1]
           ELSE search' = [search EXCEPT !.right = middle]
    /\ UNCHANGED <<table_vars, second_vars, estimator_vars>>

\* the loop test fails: return left
SearchReturn ==
    /\ search.pc = "loop"
    /\ ~(search.left < search.right)
    /\ search' = [search EXCEPT !.pc = "done"]
    /\ UNCHANGED <<table_vars, second_vars, estimator_vars>>

NextSearch == SearchStep \/ SearchReturn

\* the function runs on: no step of it waits for anything
SpecSearch == InitSearch /\ [][NextSearch]_vars /\ WF_vars(NextSearch)

\* ------------------------------------------------------- claim vocabulary
StoredKeys == SeqRange(storage_array)
PrevKeys   == SeqRange(prev.storage_array)
LogicalView == get_logical_view(Table)
\* the last delete found its key and took it out of the buffer
DeleteRemoved ==
    /\ last_action = "delete"
    /\ last_key \in PrevKeys
    /\ last_key \notin StoredKeys

\* ---------------------------------------------------------------------- C1
\* C1: after construction and after any sequence of inserts and deletes the
\* logical view (the buffer read circularly from head) is non-decreasing
\* from logical slot 0 to logical slot physicalSize-1.
C1_LogicalViewSorted ==
    \A i \in 1..(current_capacity - 1) : LogicalView[i] <= LogicalView[i + 1]

\* ---------------------------------------------------------------------- C2
\* C2: for a key x not stored in the buffer, insert(x) followed by lookup(x)
\* returns (true, p) with buffer[p] = x.
C2_InsertThenLookupFinds ==
    (last_action = "insert" /\ last_key \notin PrevKeys)
        => LET r == lookup(Table, last_key)
           IN  r[1] /\ storage_array[r[2] + 1] = last_key

\* ---------------------------------------------------------------------- C3
\* C3: for a key x stored in the buffer, delete(x) followed by lookup(x)
\* returns (false, _), also when x is the only stored key.
C3_DeleteThenLookupMisses ==
    (last_action = "delete" /\ last_key \in PrevKeys)
        => ~lookup(Table, last_key)[1]

\* a delete of a stored key whose run had more than one slot took the key out
C3_Witness ==
    /\ DeleteRemoved
    /\ Cardinality({p \in 1..Len(prev.storage_array) :
                       prev.storage_array[p] = last_key}) > 1
    /\ ~lookup(Table, last_key)[1]

\* ---------------------------------------------------------------------- C4
\* C4: a table constructed with one key has distinctCount = 1, every slot
\* holding that key and head = 0, and lookup of that key returns (true, 0).
C4_SingleKeyTable ==
    last_action = "create"
        => /\ unique_key_count = 1
           /\ \A p \in 1..current_capacity : storage_array[p] = last_key
           /\ head_position = 0
           /\ lookup(Table, last_key) = <<TRUE, 0>>

\* ---------------------------------------------------------------------- C5
\* C5: insert of a key that is already stored in the buffer changes nothing:
\* buffer, head, level, physicalSize and distinctCount stay as they were.
C5_InsertStoredIsNoOp ==
    (last_action = "insert" /\ last_key \in PrevKeys) => Table = prev

\* ---------------------------------------------------------------------- C6
\* C6: insert is idempotent: the state after insert(x); insert(x) equals the
\* state after a single insert(x).
C6_InsertIdempotent ==
    last_action = "insert" => insert(Table, last_key) = Table

\* ---------------------------------------------------------------------- C7
\* C7: distinctCount equals the number of distinct key values in the buffer.
C7_CountIsDistinctKeys ==
    unique_key_count = Cardinality(StoredKeys)

\* ---------------------------------------------------------------------- C8
\* C8: buffer[head] is the smallest key of the buffer and head is the leading
\* slot of a run of it: with more than one distinct key the slot before head
\* holds another value, with a single key head = 0.
C8_HeadOnSmallestRun ==
    /\ storage_array[head_position + 1] = SetMin(StoredKeys)
    /\ Cardinality(StoredKeys) > 1
          => storage_array[((head_position - 1) % current_capacity) + 1]
                 # storage_array[head_position + 1]
    /\ Cardinality(StoredKeys) = 1 => head_position = 0

\* a delete left the smallest key both in slot 0 and in the last slot, and
\* the head is on the last slot, where that run begins
C8_Witness ==
    /\ DeleteRemoved
    /\ Cardinality(StoredKeys) > 1
    /\ storage_array[1] = SetMin(StoredKeys)
    /\ storage_array[current_capacity] = SetMin(StoredKeys)
    /\ head_position # 0

\* ---------------------------------------------------------------------- C9
\* C9: after any insert, at any level including the last one,
\* distinctCount <= capacityLimit[level].
C9_GrowInvariant ==
    last_action = "insert" => unique_key_count <= capacity_limits[current_level]

\* --------------------------------------------------------------------- C10
\* C10 as stated: after any delete, for a table created at any level,
\* level > 1 implies distinctCount > capacityLimit[level-1].
C10_ShrinkInvariantAsStated ==
    last_action = "delete"
        => (current_level > 1
               => unique_key_count > capacity_limits[current_level - 1])

\* C10 as amended: after a delete that removes a key and leaves the level
\* as it was, level > 1 implies distinctCount > capacityLimit[level-1].
C10_ShrinkInvariant ==
    (DeleteRemoved /\ current_level = prev.current_level)
        => (current_level > 1
               => unique_key_count > capacity_limits[current_level - 1])

\* a key was removed above level 1 without a rebuild
C10_Witness ==
    /\ DeleteRemoved
    /\ current_level = prev.current_level
    /\ current_level > 1
    /\ unique_key_count = capacity_limits[current_level - 1] + 1

\* --------------------------------------------------------------------- C11
\* round(capacityLimit[level] * sizeMultiplier[level]) of the table's schedule
ScheduleSize(level) == level_capacity(capacity_limits, capacity_multipliers, level)
InsertedNew == last_action = "insert" /\ last_key \notin PrevKeys

\* C11: insert of a key not stored raises the level to level+1 exactly when
\* distinctCount = capacityLimit[level] before the call; the buffer then has
\* the length of level+1 and holds the previous keys plus the key; when
\* distinctCount < capacityLimit[level], level and physicalSize are unchanged.
C11_GrowExactlyAtLimit ==
    InsertedNew
        => LET limit  == prev.capacity_limits[prev.current_level]
               raised == current_level = prev.current_level + 1
           IN  /\ raised <=> prev.unique_key_count = limit
               /\ raised => /\ Len(storage_array) = ScheduleSize(prev.current_level + 1)
                            /\ StoredKeys = PrevKeys \cup {last_key}
               /\ prev.unique_key_count < limit
                     => /\ current_level = prev.current_level
                        /\ current_capacity = prev.current_capacity

\* --------------------------------------------------------------------- C12
\* C12: delete of a stored key (of a table that holds another key besides it)
\* lowers the level to level-1 exactly when level > 1 and the distinctCount
\* after removal is <= capacityLimit[level-1]; the buffer then has the length
\* of level-1; otherwise level and physicalSize are unchanged.
C12_ShrinkExactlyAtLimit ==
    (last_action = "delete" /\ last_key \in PrevKeys /\ Cardinality(PrevKeys) > 1)
        => LET after   == Cardinality(PrevKeys) - 1
               lowered == current_level = prev.current_level - 1
               due     == /\ prev.current_level > 1
                          /\ after <= prev.capacity_limits[prev.current_level - 1]
           IN  /\ lowered <=> due
               /\ lowered => Len(storage_array) = ScheduleSize(prev.current_level - 1)
               /\ ~lowered => /\ current_level = prev.current_level
                              /\ current_capacity = prev.current_capacity

\* --------------------------------------------------------------------- C13
\* C13: the level stays in [1, K] and moves by at most one per operation:
\* lookup never changes it, insert never lowers it, delete never raises it.
C13_LevelMovesByOne ==
    /\ (last_action # "create" /\ prev.current_level \in 1..Len(capacity_limits))
          => current_level \in 1..Len(capacity_limits)
    /\ last_action = "lookup" => current_level = prev.current_level
    /\ last_action = "insert"
          => current_level \in {prev.current_level, prev.current_level + 1}
    /\ last_action = "delete"
          => current_level \in {prev.current_level - 1, prev.current_level}

\* a delete took the table from level 3 to level 2 with a count that the
\* limit of level 1 would hold as well
C13_Witness ==
    /\ DeleteRemoved
    /\ prev.current_level = 3
    /\ current_level = 2
    /\ unique_key_count <= capacity_limits[1]

\* --------------------------------------------------------------------- C14
\* C14: lookup has no side effects: buffer, head, level, physicalSize and
\* distinctCount are after lookup(key) what they were before.
C14_LookupNoSideEffects ==
    last_action = "lookup" => Table = prev

\* a lookup found its key in a slot that is not the head
C14_Witness ==
    /\ last_action = "lookup"
    /\ last_result[1]
    /\ last_result[2] # head_position
    /\ Table = prev

\* --------------------------------------------------------------------- C15
SetMax(S) == CHOOSE x \in S : \A y \in S : y <= x
\* the keys lookups are asked for: the keys of the actions, one below, one above
ProbeKeys == Keys \cup {SetMin(Keys) - 1, SetMax(Keys) + 1}
\* physical index one past the last logical slot of the largest key
PastMaxRun ==
    LET last == SetMax({i \in 1..current_capacity :
                           LogicalView[i] = SetMax(StoredKeys)})
    IN  get_physical_index(Table, last)

\* C15: lookup of a key smaller than every stored key returns (false, head);
\* lookup of a key larger than every stored key returns (false, q), q the
\* physical index one past the last slot of the maximum key's run.
C15_LookupOutsideRange ==
    \A key \in ProbeKeys :
        /\ key < SetMin(StoredKeys)
              => lookup(Table, key) = <<FALSE, head_position>>
        /\ key > SetMax(StoredKeys)
              => lookup(Table, key) = <<FALSE, PastMaxRun>>

\* --------------------------------------------------------------------- C16
\* C16: constructing a table with initialLevel outside [1, len(schedule)],
\* 0 and negative levels included, fails with an error and yields no table.
C16_BadLevelFails ==
    (last_action = "create" /\ current_level \notin 1..Len(capacity_limits))
        => (last_result = Raised /\ storage_array = <<>>)

\* --------------------------------------------------------------------- C17
\* C17: insert of a new key at the last level of the schedule with
\* distinctCount = capacityLimit[level] fails with an error and leaves
\* buffer, head, level, physicalSize and distinctCount as they were.
C17_InsertAtFullLastLevelFails ==
    (/\ InsertedNew
     /\ prev.current_level = Len(prev.capacity_limits)
     /\ prev.unique_key_count = prev.capacity_limits[prev.current_level])
        => (last_result = Raised /\ Table = prev)

\* --------------------------------------------------------------------- C18
\* C18: lookup(key) returns found = true exactly when key is the value of
\* some buffer slot.
C18_FoundIffStored ==
    \A key \in ProbeKeys : lookup(Table, key)[1] <=> key \in StoredKeys

\* --------------------------------------------------------------------- C19
\* C19: whenever lookup(key) returns (true, p), p is the leading slot of the
\* run of key: buffer[p] = key and the slot before p holds another value.
C19_FoundAtLeadingSlot ==
    \A key \in ProbeKeys :
        LET r == lookup(Table, key)
        IN  r[1] => /\ storage_array[r[2] + 1] = key
                    /\ storage_array[((r[2] - 1) % current_capacity) + 1] # key

\* --------------------------------------------------------------------- C20
\* the value of the slot that follows the run of key in the logical view of
\* the table before the last action (the first slot again after the last one)
FillKey(key) ==
    LET view == get_logical_view(prev)
        n    == prev.current_capacity
        last == SetMax({i \in 1..n : view[i] = key /\ view[(i % n) + 1] # key})
    IN  view[(last % n) + 1]

\* C20: a delete that triggers no shrink rebuild overwrites every slot of the
\* run of key with fillKey, the value of the slot that follows the run, and
\* changes no other slot.
C20_DeleteFillsWithSuccessor ==
    (DeleteRemoved /\ current_level = prev.current_level)
        => storage_array =
              [p \in 1..prev.current_capacity |->
                  IF prev.storage_array[p] = last_key
                  THEN FillKey(last_key)
                  ELSE prev.storage_array[p]]

\* --------------------------------------------------------------------- C21
\* the last insert or delete rebuilt the table at another level
Rebuilt == last_action \in {"insert", "delete"} /\ current_level # prev.current_level

\* the even distribution of n ascending keys over size slots: with
\* q, r = divmod(size, n) the first r keys have runs of q+1, the others of q
EvenLayout(keys, size) ==
    LET n == Len(keys)
        q == size \div n
        r == size % n
    IN  [p \in 1..size |->
            IF p - 1 < r * (q + 1)
            THEN keys[((p - 1) \div (q + 1)) + 1]
            ELSE keys[r + ((p - 1 - r * (q + 1)) \div q) + 1]]

\* C21: after an insert or delete that changes the level the buffer holds
\* its n keys in ascending order from physical index 0, the first r keys in
\* runs of q+1 and the others in runs of q (q, r = divmod(physicalSize, n)),
\* and head = 0.
C21_RebuildDistribution ==
    Rebuilt
        => /\ storage_array = EvenLayout(sorted_set(StoredKeys), current_capacity)
           /\ head_position = 0

\* --------------------------------------------------------------------- C22
\* C22: after construction and after every insert or delete the buffer
\* length equals physicalSize, and physicalSize equals
\* round(capacityLimit[level] * sizeMultiplier[level]) for the current level.
C22_SizeFollowsLevel ==
    last_result # Raised
        => /\ Len(storage_array) = current_capacity
           /\ current_capacity = ScheduleSize(current_level)

\* a shrink rebuild gave the table the size of the lower level, not the
\* size it had
C22_Witness ==
    /\ DeleteRemoved
    /\ current_level = prev.current_level - 1
    /\ Len(storage_array) = ScheduleSize(current_level)
    /\ Len(storage_array) # Len(prev.storage_array)

\* --------------------------------------------------------------------- C23
\* C23: after construction and after every insert or delete,
\* 1 <= distinctCount <= physicalSize.
C23_CountWithinSize ==
    last_result # Raised
        => (1 <= unique_key_count /\ unique_key_count <= current_capacity)

\* --------------------------------------------------------------------- C24
\* C24: insert never loses a stored key and adds none but its own: the set
\* of values in the buffer after insert(x) is the set before the call plus x.
C24_InsertKeepsKeys ==
    last_action = "insert"
        => /\ PrevKeys \subseteq StoredKeys
           /\ StoredKeys \subseteq PrevKeys \cup {last_key}

\* --------------------------------------------------------------------- C25
\* C25: delete removes nothing but its target: every value other than x that
\* was in the buffer before delete(x) is in the buffer afterwards, with or
\* without a shrink rebuild.
C25_DeleteKeepsOthers ==
    last_action = "delete" => (PrevKeys \ {last_key}) \subseteq StoredKeys

\* a shrink rebuild took one key out of a table that held three or more
C25_Witness ==
    /\ DeleteRemoved
    /\ current_level = prev.current_level - 1
    /\ Cardinality(PrevKeys) >= 3
    /\ StoredKeys = PrevKeys \ {last_key}

\* --------------------------------------------------------------------- C26
\* the last insert stored a new key and raised the level by one
GrewForNewKey == InsertedNew /\ current_level = prev.current_level + 1

\* C26: if insert(x) of a new key raises the level from k to k+1, a
\* delete(x) that follows immediately returns the table to level k, with the
\* physicalSize of level k and the stored keys it had before the insert.
C26_GrowShrinkRoundTrip ==
    GrewForNewKey
        => LET back == delete(Table, last_key)
           IN  /\ back.current_level = prev.current_level
               /\ back.current_capacity = ScheduleSize(prev.current_level)
               /\ Len(back.storage_array) = ScheduleSize(prev.current_level)
               /\ SeqRange(back.storage_array) = PrevKeys

\* --------------------------------------------------------------------- C27
\* C27: the two SparseTable implementations, started from the same schedule,
\* initial level and first key and given the same calls, have the same
\* buffer, head, level, physicalSize and key count after every step and
\* return the same lookup results.
C27_SameTables ==
    /\ storage_array    = second_table.data
    /\ head_position    = second_table.head
    /\ current_level    = second_table.k
    /\ current_capacity = second_table.m
    /\ unique_key_count = second_table.n
    /\ last_result      = second_result

\* --------------------------------------------------------------------- C28
\* C28: after any sequence of process_element calls the buffer holds at most
\* max_size elements, each element at most once.
C28_BufferWithinSize ==
    estimator.max_size > 0
        => /\ Len(estimator.buffer) <= estimator.max_size
           /\ \A i, j \in 1..Len(estimator.buffer) :
                  estimator.buffer[i][1] = estimator.buffer[j][1] => i = j

\* a call on a full buffer of two put a new element in the place of another
C28_Witness ==
    /\ estimator.max_size = 2
    /\ Len(prev_estimator.buffer) = 2
    /\ Len(estimator.buffer) = 2
    /\ \E i \in 1..2 : ~in_buffer(prev_estimator.buffer, estimator.buffer[i][1])

\* --------------------------------------------------------------------- C29
\* C29: the threshold p never increases across process_element calls, and
\* every volatility stored in the buffer is <= the current p.
C29_ThresholdDecreases ==
    /\ estimator.p <= prev_estimator.p
    /\ \A i \in 1..Len(estimator.buffer) : estimator.buffer[i][2] <= estimator.p

\* a call lowered p to the volatility of the element it took out while
\* another element of that same volatility stays in the buffer
C29_Witness ==
    /\ estimator.p < prev_estimator.p
    /\ estimator.p < Grades
    /\ Len(estimator.buffer) = 2
    /\ \E i \in 1..2 : estimator.buffer[i][2] = estimator.p

\* --------------------------------------------------------------------- C30
NonDecreasing(array) == \A i \in 1..(Len(array) - 1) : array[i] <= array[i + 1]

\* the smallest index (from 0) of an element >= target, len(array) without one
LeftmostAtLeast(array, target) ==
    IF \E i \in 1..Len(array) : array[i] >= target
    THEN SetMin({i \in 1..Len(array) : array[i] >= target}) - 1
    ELSE Len(array)

SearchReturned ==
    search.pc = "done"
        => /\ search.left \in 0..Len(search.array)
           /\ search.left = binary_search_leftmost(search.array, search.target)
           /\ search.left = bisect_left(search.array, search.target)
           /\ NonDecreasing(search.array)
                 => search.left = LeftmostAtLeast(search.array, search.target)

\* C30: binary_search_leftmost(array, target) terminates for every input
\* and, for a non-decreasing array, returns the smallest index i with
\* array[i] >= target, or len(array) when no element is >= target.
C30_SearchLeftmost == []SearchReturned /\ <>(search.pc = "done")

\* the search returned index 1 of an array whose last two elements are the
\* target
C30_Witness ==
    /\ search.pc = "done"
    /\ Len(search.array) = 3
    /\ search.array[1] < search.target
    /\ search.array[2] = search.target
    /\ search.array[3] = search.target
    /\ search.left = 1

====
